---- MODULE Spec2Model ----
(***************************************************************************)
(* Tokenizer cache (createTokenizer), the two tokenizer adapters           *)
(* (TiktokenTokenizer, OpenSourceTokenizer) and their adaptive             *)
(* segmentation (shouldUseFastMode, getSegmentsOptimized, chunkText).      *)
(*                                                                         *)
(* A text is a sequence of characters over Alphabet.  "S" stands for the   *)
(* text of one special token of the encoding (for instance <|im_start|>). *)
(***************************************************************************)
EXTENDS Integers, Sequences, FiniteSets, TLC

VARIABLES
    tokenizerCache,   \* the module-level Map: cache key -> adapter instance id
    heap,             \* adapter objects in allocation order; instance id = index
    pc,               \* per createTokenizer call: where the call stands
    callArgs,         \* per call: the name and hostInfo it was started with
    callRet,          \* per call: the instance id it returned (0: none)
    windowOrigin,     \* window.location.origin, "" where there is no window
    remoteHost,       \* env.remoteHost of the pretrained-tokenizer library
    loadHost,         \* per call: the host its from_pretrained fetch uses
    loadCount,        \* cache key -> number of from_pretrained invocations
    engineUsed,       \* per call: it asked get_encoding / encoding_for_model for an engine
    tkIn,             \* the tokenize call under study: adapter, text, options
    tkPc,             \* "start" before that call, "done" after it
    tkFast,           \* the local shouldUseFastMode of that call
    tkOut,            \* its result
    ckIn,             \* the chunkText call under study: adapter class, text, chunkSize
    ckPc,             \* "start" before that call, "done" after it
    ckOut,            \* the chunks it returned
    hdReq,            \* per call: the request the API handler serves with it
    hdStatus,         \* per call: the status of the response (0: none yet)
    hdBody            \* per call: which body the response carries

cacheVars == <<tokenizerCache, heap, pc, callArgs, callRet, windowOrigin,
               remoteHost, loadHost, loadCount, engineUsed>>
tokVars == <<tkIn, tkPc, tkFast, tkOut>>
chunkVars == <<ckIn, ckPc, ckOut>>
hdVars == <<hdReq, hdStatus, hdBody>>
vars == <<tokenizerCache, heap, pc, callArgs, callRet, windowOrigin,
          remoteHost, loadHost, loadCount, engineUsed, tkIn, tkPc, tkFast, tkOut,
          ckIn, ckPc, ckOut, hdReq, hdStatus, hdBody>>

----------------------------------------------------------------------------
(* Bounds of the model *)

MaxTextLen == 4
MaxCalls == 3

----------------------------------------------------------------------------
(* Model catalog: src/src/models/index.ts *)

oaiEncodings ==
    {"gpt2", "r50k_base", "p50k_base", "p50k_edit", "cl100k_base", "o200k_base"}

chatModels ==
    {"gpt-4o", "gpt-3.5-turbo", "gpt-4", "gpt-4-32k", "gpt-4-1106-preview"}

legacyTextModels ==
    {"text-davinci-003", "text-davinci-002", "text-davinci-001",
     "text-curie-001", "text-babbage-001", "text-ada-001", "davinci", "curie",
     "babbage", "ada", "code-davinci-002", "code-davinci-001",
     "code-cushman-002", "code-cushman-001", "davinci-codex", "cushman-codex",
     "text-davinci-edit-001", "code-davinci-edit-001"}

embeddingModels ==
    {"text-embedding-ada-002", "text-embedding-3-small", "text-embedding-3-large"}

legacyEmbeddingModels ==
    {"text-similarity-davinci-001", "text-similarity-curie-001",
     "text-similarity-babbage-001", "text-similarity-ada-001",
     "text-search-davinci-doc-001", "text-search-curie-doc-001",
     "text-search-babbage-doc-001", "text-search-ada-doc-001",
     "code-search-babbage-code-001", "code-search-ada-code-001"}

oaiModels ==
    chatModels \cup legacyTextModels \cup legacyEmbeddingModels \cup embeddingModels

\* variant: a model of the remove-first-token list is offered as well
openSourceModelsWithLlama ==
    {"deepseek-ai/DeepSeek-R1", "Qwen/Qwen2.5-72B", "01-ai/Yi-6B",
     "openai/whisper-tiny", "meta-llama/Llama-2-7b-hf"}

openSourceModels ==
    {"deepseek-ai/DeepSeek-R1", "Qwen/Qwen2.5-72B", "01-ai/Yi-6B",
     "openai/whisper-tiny"}

hackModelsRemoveFirstToken ==
    {"meta-llama/Llama-2-7b-hf", "codellama/CodeLlama-7b-hf",
     "codellama/CodeLlama-70b-hf"}

allModels == oaiModels \cup openSourceModels

allOptions == allModels \cup oaiEncodings

isValidOption(model) == model \in allOptions

----------------------------------------------------------------------------
(* Thresholds written in the adapters *)

TiktokenTriggerLength == 10000
TiktokenDefaultMaxTokens == 2000
TiktokenDefaultChunkSize == 5000
OpenSourceTriggerLength == 5000
OpenSourceDefaultMaxTokens == 1500
OpenSourceDefaultChunkSize == 3000

----------------------------------------------------------------------------
(* TokenizeOptions: a record that holds only the fields the caller gave.   *)
(* options?.f || d  is d when f is absent, 0 or false.                     *)

HasField(options, f) == f \in DOMAIN options

Truthy(options, f) ==
    /\ HasField(options, f)
    /\ IF f = "fastMode" THEN options[f] = TRUE ELSE options[f] # 0

OrDefault(options, f, d) == IF Truthy(options, f) THEN options[f] ELSE d

----------------------------------------------------------------------------
(* Reference engine.  The vocabulary has the tokens "a" (1), "b" (2), the  *)
(* merge "ab" (3) and the special token "S" (9); the pretrained tokenizers *)
(* of the remove-first-token families prepend the pseudo-token BosId.      *)
(* Tokenisation is greedy longest match, so a "b" that follows an "a" is   *)
(* merged into the token of that "a".                                      *)

Alphabet == {"a", "b", "S"}

BosId == 7

Min(x, y) == IF x <= y THEN x ELSE y

IsTokenStart(text, i) == ~(text[i] = "b" /\ i > 1 /\ text[i - 1] = "a")

TokenAt(text, i) ==
    IF text[i] = "a" /\ i < Len(text) /\ text[i + 1] = "b"
    THEN [id |-> 3, from |-> i, to |-> i + 1]
    ELSE [id |-> IF text[i] = "a" THEN 1 ELSE IF text[i] = "b" THEN 2 ELSE 9,
          from |-> i, to |-> i]

\* the tokens of text[lo..hi], each with the span of the text it covers
RECURSIVE EngineSpans(_, _, _)
EngineSpans(text, lo, hi) ==
    IF lo > hi THEN <<>>
    ELSE IF lo = hi
         THEN IF IsTokenStart(text, lo) THEN <<TokenAt(text, lo)>> ELSE <<>>
         ELSE LET mid == (lo + hi) \div 2
              IN  EngineSpans(text, lo, mid) \o EngineSpans(text, mid + 1, hi)

EngineTokens(text) == EngineSpans(text, 1, Len(text))

HasSpecial(text) == \E i \in 1..Len(text) : text[i] = "S"

\* Tiktoken.encode(text, "all"): special tokens are recognised
EncodeAll(text) ==
    LET spans == EngineTokens(text) IN [k \in 1..Len(spans) |-> spans[k].id]

\* Tiktoken.encode(text): the default mode refuses a text that holds the
\* text of a special token
EncodeDefaultThrows(text) == HasSpecial(text)

EncodeDefault(text) == EncodeAll(text)

\* segments of a list of token spans: one segment per token, idx = position
SegmentsOfSpans(text, spans) ==
    [k \in 1..Len(spans) |->
        [text   |-> SubSeq(text, spans[k].from, spans[k].to),
         tokens |-> <<[id |-> spans[k].id, idx |-> k - 1]>>]]

getTiktokenSegments(text) == SegmentsOfSpans(text, EngineTokens(text))

PrependsBos(model) == model \in hackModelsRemoveFirstToken

PretrainedSpans(model, text) ==
    (IF PrependsBos(model) THEN <<[id |-> BosId, from |-> 1, to |-> 0]>> ELSE <<>>)
        \o EngineTokens(text)

\* PreTrainedTokenizer.encode(text)
PretrainedEncode(model, text) ==
    LET spans == PretrainedSpans(model, text)
    IN  [k \in 1..Len(spans) |-> spans[k].id]

getHuggingfaceSegments(model, text, removeFirstToken) ==
    LET spans == PretrainedSpans(model, text)
        kept  == IF removeFirstToken /\ Len(spans) > 0 THEN Tail(spans) ELSE spans
    IN  SegmentsOfSpans(text, kept)

----------------------------------------------------------------------------
(* Shared shapes *)

\* a failed tokenize call returns nothing: threw is set and the rest is empty
Thrown == [threw |-> TRUE, name |-> "", tokens |-> <<>>, segments |-> <<>>, count |-> 0]

Result(name, tokens, segments, count) ==
    [threw |-> FALSE, name |-> name, tokens |-> tokens, segments |-> segments,
     count |-> count]

\* segment.tokens.map(token => ({...token, idx: token.idx + tokenOffset}))
AdjustSegment(segment, tokenOffset) ==
    [text   |-> segment.text,
     tokens |-> [j \in 1..Len(segment.tokens) |->
                    [id  |-> segment.tokens[j].id,
                     idx |-> segment.tokens[j].idx + tokenOffset]]]

AdjustSegments(chunkSegments, tokenOffset) ==
    [s \in 1..Len(chunkSegments) |-> AdjustSegment(chunkSegments[s], tokenOffset)]

----------------------------------------------------------------------------
(* TiktokenTokenizer *)

TiktokenShouldUseFastMode(text, tokenCount, options) ==
    IF Truthy(options, "fastMode") THEN TRUE
    ELSE IF Len(text) > TiktokenTriggerLength THEN TRUE
    ELSE IF tokenCount > OrDefault(options, "maxTokens", TiktokenDefaultMaxTokens) THEN TRUE
    ELSE FALSE

\* variant: text.slice(i, i + chunkSize + 1), slices that overlap by one
RECURSIVE TiktokenChunkFromOverlap(_, _, _)
TiktokenChunkFromOverlap(text, chunkSize, i) ==
    IF i < Len(text)
    THEN <<SubSeq(text, i + 1, Min(i + chunkSize + 1, Len(text)))>>
             \o TiktokenChunkFromOverlap(text, chunkSize, i + chunkSize)
    ELSE <<>>

\* for (let i = 0; i < text.length; i += chunkSize) chunks.push(text.slice(i, i + chunkSize))
RECURSIVE TiktokenChunkFrom(_, _, _)
TiktokenChunkFrom(text, chunkSize, i) ==
    IF i < Len(text)
    THEN <<SubSeq(text, i + 1, Min(i + chunkSize, Len(text)))>>
             \o TiktokenChunkFrom(text, chunkSize, i + chunkSize)
    ELSE <<>>

TiktokenChunkText(text, chunkSize) == TiktokenChunkFrom(text, chunkSize, 0)

\* the for loop over the chunks, from chunk k on
RECURSIVE TiktokenChunkLoop(_, _, _, _)
TiktokenChunkLoop(chunks, k, allSegments, tokenOffset) ==
    IF k > Len(chunks) THEN allSegments
    ELSE TiktokenChunkLoop(chunks, k + 1,
             allSegments \o AdjustSegments(getTiktokenSegments(chunks[k]), tokenOffset),
             tokenOffset + Len(EncodeDefault(chunks[k])))

\* variant: the chunk size is read from the maxTokens field
TiktokenChunkSizeFromMaxTokens(options) ==
    OrDefault(options, "maxTokens", TiktokenDefaultChunkSize)

TiktokenChunkSize(options) == OrDefault(options, "chunkSize", TiktokenDefaultChunkSize)

\* variant: only a failure of the first chunk is thrown, a later one ends
\* the loop
TiktokenGetSegmentsThrowsFirstChunkOnly(text, options) ==
    /\ Len(text) > TiktokenChunkSize(options)
    /\ EncodeDefaultThrows(TiktokenChunkText(text, TiktokenChunkSize(options))[1])

TiktokenGetSegmentsThrows(text, options) ==
    /\ Len(text) > TiktokenChunkSize(options)
    /\ LET chunks == TiktokenChunkText(text, TiktokenChunkSize(options))
       IN  \E k \in 1..Len(chunks) : EncodeDefaultThrows(chunks[k])

TiktokenGetSegmentsOptimized(text, tokens, options) ==
    LET chunkSize == TiktokenChunkSize(options)
    IN  IF Len(text) <= chunkSize
        THEN getTiktokenSegments(text)
        ELSE TiktokenChunkLoop(TiktokenChunkText(text, chunkSize), 1, <<>>, 0)

\* variant: the fast path hands out no more than maxTokens tokens
TiktokenTokenizeFastTruncates(self, text, options) ==
    LET tokens == EncodeAll(text)
        limit  == OrDefault(options, "maxTokens", TiktokenDefaultMaxTokens)
        kept   == SubSeq(tokens, 1, Min(Len(tokens), limit))
    IN  IF TiktokenShouldUseFastMode(text, Len(tokens), options)
        THEN Result(self.name, kept, <<>>, Len(kept))
        ELSE IF TiktokenGetSegmentsThrows(text, options)
             THEN Thrown
             ELSE Result(self.name, tokens,
                         TiktokenGetSegmentsOptimized(text, tokens, options),
                         Len(tokens))

TiktokenTokenize(self, text, options) ==
    LET tokens == EncodeAll(text)
    IN  IF TiktokenShouldUseFastMode(text, Len(tokens), options)
        THEN Result(self.name, tokens, <<>>, Len(tokens))
        ELSE IF TiktokenGetSegmentsThrows(text, options)
             THEN Thrown
             ELSE Result(self.name, tokens,
                         TiktokenGetSegmentsOptimized(text, tokens, options),
                         Len(tokens))

----------------------------------------------------------------------------
(* OpenSourceTokenizer *)

\* variant: tokenCount >= maxTokens
OpenSourceShouldUseFastModeAtLimit(text, tokenCount, options) ==
    IF Truthy(options, "fastMode") THEN TRUE
    ELSE IF Len(text) > OpenSourceTriggerLength THEN TRUE
    ELSE IF tokenCount >= OrDefault(options, "maxTokens", OpenSourceDefaultMaxTokens) THEN TRUE
    ELSE FALSE

OpenSourceShouldUseFastMode(text, tokenCount, options) ==
    IF Truthy(options, "fastMode") THEN TRUE
    ELSE IF Len(text) > OpenSourceTriggerLength THEN TRUE
    ELSE IF tokenCount > OrDefault(options, "maxTokens", OpenSourceDefaultMaxTokens) THEN TRUE
    ELSE FALSE

\* variant: the loop stops before a last chunk shorter than chunkSize
RECURSIVE OpenSourceChunkFromFullOnly(_, _, _)
OpenSourceChunkFromFullOnly(text, chunkSize, i) ==
    IF i + chunkSize <= Len(text)
    THEN <<SubSeq(text, i + 1, i + chunkSize)>>
             \o OpenSourceChunkFromFullOnly(text, chunkSize, i + chunkSize)
    ELSE <<>>

RECURSIVE OpenSourceChunkFrom(_, _, _)
OpenSourceChunkFrom(text, chunkSize, i) ==
    IF i < Len(text)
    THEN <<SubSeq(text, i + 1, Min(i + chunkSize, Len(text)))>>
             \o OpenSourceChunkFrom(text, chunkSize, i + chunkSize)
    ELSE <<>>

OpenSourceChunkText(text, chunkSize) == OpenSourceChunkFrom(text, chunkSize, 0)

\* variant: tokenOffset is never advanced
RECURSIVE OpenSourceChunkLoopNoOffset(_, _, _, _, _, _)
OpenSourceChunkLoopNoOffset(model, removeFirstToken, chunks, k, allSegments, tokenOffset) ==
    IF k > Len(chunks) THEN allSegments
    ELSE OpenSourceChunkLoopNoOffset(model, removeFirstToken, chunks, k + 1,
             allSegments \o AdjustSegments(
                 getHuggingfaceSegments(model, chunks[k], removeFirstToken),
                 tokenOffset),
             tokenOffset)

RECURSIVE OpenSourceChunkLoop(_, _, _, _, _, _)
OpenSourceChunkLoop(model, removeFirstToken, chunks, k, allSegments, tokenOffset) ==
    IF k > Len(chunks) THEN allSegments
    ELSE OpenSourceChunkLoop(model, removeFirstToken, chunks, k + 1,
             allSegments \o AdjustSegments(
                 getHuggingfaceSegments(model, chunks[k], removeFirstToken),
                 tokenOffset),
             tokenOffset + Len(PretrainedEncode(model, chunks[k])))

OpenSourceChunkSize(options) == OrDefault(options, "chunkSize", OpenSourceDefaultChunkSize)

OpenSourceGetSegmentsOptimized(model, text, tokens, removeFirstToken, options) ==
    LET chunkSize == OpenSourceChunkSize(options)
    IN  IF Len(text) <= chunkSize
        THEN getHuggingfaceSegments(model, text, removeFirstToken)
        ELSE OpenSourceChunkLoop(model, removeFirstToken,
                                 OpenSourceChunkText(text, chunkSize), 1, <<>>, 0)

\* variant: count leaves out the token the remove-first-token quirk drops
OpenSourceTokenizeCountQuirk(self, text, options) ==
    LET tokens == PretrainedEncode(self.model, text)
        removeFirstToken == self.name \in hackModelsRemoveFirstToken
        count == IF removeFirstToken /\ Len(tokens) > 0 THEN Len(tokens) - 1 ELSE Len(tokens)
    IN  IF OpenSourceShouldUseFastMode(text, Len(tokens), options)
        THEN Result(self.name, tokens, <<>>, count)
        ELSE Result(self.name, tokens,
                    OpenSourceGetSegmentsOptimized(self.model, text, tokens,
                                                   removeFirstToken, options),
                    count)

\* variant: the first token is removed from the returned tokens as well
OpenSourceTokenizeDropsFirstToken(self, text, options) ==
    LET encoded == PretrainedEncode(self.model, text)
        removeFirstToken == self.name \in hackModelsRemoveFirstToken
        tokens == IF removeFirstToken /\ Len(encoded) > 0 THEN Tail(encoded) ELSE encoded
    IN  IF OpenSourceShouldUseFastMode(text, Len(tokens), options)
        THEN Result(self.name, tokens, <<>>, Len(tokens))
        ELSE Result(self.name, tokens,
                    OpenSourceGetSegmentsOptimized(self.model, text, tokens,
                                                   removeFirstToken, options),
                    Len(tokens))

OpenSourceTokenize(self, text, options) ==
    LET tokens == PretrainedEncode(self.model, text)
        removeFirstToken == self.name \in hackModelsRemoveFirstToken
    IN  IF OpenSourceShouldUseFastMode(text, Len(tokens), options)
        THEN Result(self.name, tokens, <<>>, Len(tokens))
        ELSE Result(self.name, tokens,
                    OpenSourceGetSegmentsOptimized(self.model, text, tokens,
                                                   removeFirstToken, options),
                    Len(tokens))

\* Tokenizer.tokenize, dispatched on the class of the adapter
Tokenize(self, text, options) ==
    IF self.kind = "tiktoken"
    THEN TiktokenTokenize(self, text, options)
    ELSE OpenSourceTokenize(self, text, options)

----------------------------------------------------------------------------
(* Tokenizer cache: createTokenizer *)

Calls == 1..MaxCalls

InputNames ==
    {"cl100k_base", "gpt-4", "text-embedding-3-small", "text-embedding-3-large",
     "Qwen/Qwen2.5-72B", "meta-llama/Llama-2-7b-hf", "not-a-real-model"}

\* hostInfo "" stands for an absent (or empty) hostInfo: both are falsy
InputHosts == {"", "h1"}

\* the arguments createTokenizer is called with: every name without hostInfo,
\* an encoding and an open-source model with either host, and a name of no
\* catalog set whose cache key is the one of "cl100k_base" without hostInfo
InputArgs ==
    {[name |-> n, hostInfo |-> ""] : n \in InputNames}
    \cup {[name |-> n, hostInfo |-> h] :
             n \in {"cl100k_base", "Qwen/Qwen2.5-72B"}, h \in InputHosts}
    \cup {[name |-> "cl100k", hostInfo |-> "base_default"]}

DefaultRemoteHost == "https://huggingface.co/"

NoArgs == [name |-> "", hostInfo |-> ""]

\* `${name}_${options?.hostInfo || 'default'}`
cacheKey(name, hostInfo) ==
    name \o "_" \o (IF hostInfo # "" THEN hostInfo ELSE "default")

KeyOf(c) == cacheKey(callArgs[c].name, callArgs[c].hostInfo)

EmptyMap == [k \in {} |-> 0]

MapSet(map, k, v) == [x \in DOMAIN map \cup {k} |-> IF x = k THEN v ELSE map[x]]

LoadCountOf(k) == IF k \in DOMAIN loadCount THEN loadCount[k] ELSE 0

\* variant: the constructor without the check for the two "too new" models
TiktokenConstructorThrowsUnknownOnly(model) ==
    model \notin oaiModels /\ model \notin oaiEncodings

\* new TiktokenTokenizer(model) throws for the two "too new" models and for
\* a name that is neither a model nor an encoding
TiktokenConstructorThrows(model) ==
    IF model \in oaiModels
    THEN model \in {"text-embedding-3-small", "text-embedding-3-large"}
    ELSE model \notin oaiEncodings

\* this.name = enc.name ?? model for a model, the encoding name otherwise;
\* the engines of get_encoding carry the name of their encoding
TiktokenName(model) ==
    IF model \in oaiModels
    THEN IF model \in {"gpt-3.5-turbo", "gpt-4", "gpt-4-32k"} THEN "cl100k_base"
         ELSE IF model = "gpt-4o" THEN "o200k_base"
         ELSE model
    ELSE model

NewTiktokenTokenizer(model) ==
    [kind |-> "tiktoken", name |-> TiktokenName(model), model |-> model]

\* new OpenSourceTokenizer(tokenizer, name): name ?? tokenizer.name
NewOpenSourceTokenizer(model, name) ==
    [kind |-> "opensource", name |-> name, model |-> model]

\* the host OpenSourceTokenizer.load leaves in env.remoteHost
LoadRemoteHost(hostInfo) ==
    IF hostInfo # "" THEN hostInfo
    ELSE IF windowOrigin # "" THEN windowOrigin
    ELSE remoteHost

CacheInit ==
    /\ tokenizerCache = EmptyMap
    /\ heap = <<>>
    /\ pc = [c \in Calls |-> "idle"]
    /\ callArgs = [c \in Calls |-> NoArgs]
    /\ callRet = [c \in Calls |-> 0]
    /\ windowOrigin \in {"", "https://page.example"}
    /\ remoteHost = DefaultRemoteHost
    /\ loadHost = [c \in Calls |-> ""]
    /\ loadCount = EmptyMap
    /\ engineUsed = [c \in Calls |-> FALSE]

\* createTokenizer, cache hit: lines 302-306
CreateTokenizerHit(c, name, hostInfo) ==
    /\ pc[c] = "idle"
    /\ cacheKey(name, hostInfo) \in DOMAIN tokenizerCache
    /\ pc' = [pc EXCEPT ![c] = "done"]
    /\ callArgs' = [callArgs EXCEPT ![c] = [name |-> name, hostInfo |-> hostInfo]]
    /\ callRet' = [callRet EXCEPT ![c] = tokenizerCache[cacheKey(name, hostInfo)]]
    /\ UNCHANGED <<tokenizerCache, heap, windowOrigin, remoteHost, loadHost, loadCount,
                   engineUsed>>

\* variant: the adapter is cached under the key of its encoding name
CreateTokenizerTiktokenKeyedByEncoding(c, name, hostInfo, engineOk) ==
    /\ pc[c] = "idle"
    /\ cacheKey(name, hostInfo) \notin DOMAIN tokenizerCache
    /\ name \in oaiEncodings \cup oaiModels
    /\ callArgs' = [callArgs EXCEPT ![c] = [name |-> name, hostInfo |-> hostInfo]]
    /\ IF TiktokenConstructorThrows(name) \/ ~engineOk
       THEN /\ pc' = [pc EXCEPT ![c] = "failed"]
            /\ UNCHANGED <<tokenizerCache, heap, callRet>>
       ELSE /\ heap' = Append(heap, NewTiktokenTokenizer(name))
            /\ tokenizerCache' = MapSet(tokenizerCache,
                                        cacheKey(TiktokenName(name), hostInfo),
                                        Len(heap) + 1)
            /\ callRet' = [callRet EXCEPT ![c] = Len(heap) + 1]
            /\ pc' = [pc EXCEPT ![c] = "done"]
    /\ engineUsed' = [engineUsed EXCEPT ![c] = ~TiktokenConstructorThrows(name)]
    /\ UNCHANGED <<windowOrigin, remoteHost, loadHost, loadCount>>

\* createTokenizer, miss on an encoding or an OpenAI model: lines 308-321;
\* engineOk is whether get_encoding / encoding_for_model hands out an engine
CreateTokenizerTiktoken(c, name, hostInfo, engineOk) ==
    /\ pc[c] = "idle"
    /\ cacheKey(name, hostInfo) \notin DOMAIN tokenizerCache
    /\ name \in oaiEncodings \cup oaiModels
    /\ callArgs' = [callArgs EXCEPT ![c] = [name |-> name, hostInfo |-> hostInfo]]
    /\ IF TiktokenConstructorThrows(name) \/ ~engineOk
       THEN /\ pc' = [pc EXCEPT ![c] = "failed"]
            /\ UNCHANGED <<tokenizerCache, heap, callRet>>
       ELSE /\ heap' = Append(heap, NewTiktokenTokenizer(name))
            /\ tokenizerCache' = MapSet(tokenizerCache, cacheKey(name, hostInfo), Len(heap) + 1)
            /\ callRet' = [callRet EXCEPT ![c] = Len(heap) + 1]
            /\ pc' = [pc EXCEPT ![c] = "done"]
    /\ engineUsed' = [engineUsed EXCEPT ![c] = ~TiktokenConstructorThrows(name)]
    /\ UNCHANGED <<windowOrigin, remoteHost, loadHost, loadCount>>

\* createTokenizer, miss on an open-source model, up to the await of
\* from_pretrained inside OpenSourceTokenizer.load: lines 323-326, 172-196
CreateTokenizerLoad(c, name, hostInfo) ==
    /\ pc[c] = "idle"
    /\ cacheKey(name, hostInfo) \notin DOMAIN tokenizerCache
    /\ name \notin oaiEncodings \cup oaiModels
    /\ name \in openSourceModels
    /\ callArgs' = [callArgs EXCEPT ![c] = [name |-> name, hostInfo |-> hostInfo]]
    /\ remoteHost' = LoadRemoteHost(hostInfo)
    /\ loadHost' = [loadHost EXCEPT ![c] = LoadRemoteHost(hostInfo)]
    /\ loadCount' = MapSet(loadCount, cacheKey(name, hostInfo),
                           LoadCountOf(cacheKey(name, hostInfo)) + 1)
    /\ pc' = [pc EXCEPT ![c] = "loading"]
    /\ UNCHANGED <<tokenizerCache, heap, callRet, windowOrigin, engineUsed>>

\* createTokenizer, miss on a name of no catalog set: line 336
CreateTokenizerInvalid(c, name, hostInfo) ==
    /\ pc[c] = "idle"
    /\ cacheKey(name, hostInfo) \notin DOMAIN tokenizerCache
    /\ name \notin oaiEncodings \cup oaiModels \cup openSourceModels
    /\ callArgs' = [callArgs EXCEPT ![c] = [name |-> name, hostInfo |-> hostInfo]]
    /\ pc' = [pc EXCEPT ![c] = "failed"]
    /\ UNCHANGED <<tokenizerCache, heap, callRet, windowOrigin, remoteHost,
                   loadHost, loadCount, engineUsed>>

\* variant: the insertion is skipped when the key has an entry by now
LoadResolveKeepsFirst(c) ==
    /\ pc[c] = "loading"
    /\ heap' = Append(heap, NewOpenSourceTokenizer(callArgs[c].name, callArgs[c].name))
    /\ tokenizerCache' = IF KeyOf(c) \in DOMAIN tokenizerCache
                         THEN tokenizerCache
                         ELSE MapSet(tokenizerCache, KeyOf(c), Len(heap) + 1)
    /\ callRet' = [callRet EXCEPT ![c] = Len(heap) + 1]
    /\ pc' = [pc EXCEPT ![c] = "done"]
    /\ UNCHANGED <<callArgs, windowOrigin, remoteHost, loadHost, loadCount, engineUsed>>

\* from_pretrained resolves; the call goes on after the await: lines 327-334
LoadResolve(c) ==
    /\ pc[c] = "loading"
    /\ heap' = Append(heap, NewOpenSourceTokenizer(callArgs[c].name, callArgs[c].name))
    /\ tokenizerCache' = MapSet(tokenizerCache, KeyOf(c), Len(heap) + 1)
    /\ callRet' = [callRet EXCEPT ![c] = Len(heap) + 1]
    /\ pc' = [pc EXCEPT ![c] = "done"]
    /\ UNCHANGED <<callArgs, windowOrigin, remoteHost, loadHost, loadCount, engineUsed>>

\* variant: the adapter is built and cached before the load is awaited, so a
\* rejected load leaves it in the cache
LoadRejectKeepsEntry(c) ==
    /\ pc[c] = "loading"
    /\ heap' = Append(heap, NewOpenSourceTokenizer(callArgs[c].name, callArgs[c].name))
    /\ tokenizerCache' = MapSet(tokenizerCache, KeyOf(c), Len(heap) + 1)
    /\ pc' = [pc EXCEPT ![c] = "failed"]
    /\ UNCHANGED <<callArgs, callRet, windowOrigin, remoteHost, loadHost, loadCount,
                   engineUsed>>

\* from_pretrained rejects: the await throws and createTokenizer fails
LoadReject(c) ==
    /\ pc[c] = "loading"
    /\ pc' = [pc EXCEPT ![c] = "failed"]
    /\ UNCHANGED <<tokenizerCache, heap, callArgs, callRet, windowOrigin,
                   remoteHost, loadHost, loadCount, engineUsed>>

----------------------------------------------------------------------------
(* Inputs of tokenize *)

TokAdapters ==
    {NewTiktokenTokenizer("cl100k_base"),
     NewOpenSourceTokenizer("Qwen/Qwen2.5-72B", "Qwen/Qwen2.5-72B"),
     NewOpenSourceTokenizer("meta-llama/Llama-2-7b-hf", "meta-llama/Llama-2-7b-hf")}

ShortTexts == UNION {[1..n -> Alphabet] : n \in 0..MaxTextLen}

\* an option value is <<present, value>>
MakeOptions(f, c, m) ==
    (IF f[1] THEN [fastMode |-> f[2]] ELSE <<>>)
        @@ (IF c[1] THEN [chunkSize |-> c[2]] ELSE <<>>)
        @@ (IF m[1] THEN [maxTokens |-> m[2]] ELSE <<>>)

ShortOptions ==
    {MakeOptions(f, c, m) :
        f \in {<<FALSE, FALSE>>, <<TRUE, FALSE>>, <<TRUE, TRUE>>},
        c \in {<<FALSE, 0>>, <<TRUE, 0>>, <<TRUE, 1>>, <<TRUE, 2>>, <<TRUE, 3>>},
        m \in {<<FALSE, 0>>, <<TRUE, 0>>, <<TRUE, 1>>, <<TRUE, 3>>}}

\* long texts: n times "a", and n characters of "baba...", where every
\* boundary at an even position falls inside a token "ab"
RunOfA(n) == [i \in 1..n |-> "a"]
RunOfBA(n) == [i \in 1..n |-> IF i % 2 = 1 THEN "b" ELSE "a"]

LongLengths == {1500, 1501, 2000, 2001, 3000, 3001, 5000, 5001, 10000, 10001}

LongTexts == {RunOfA(n) : n \in LongLengths} \cup {RunOfBA(5002)}

\* a long text is tokenized with the default chunk size
LongOptions ==
    {MakeOptions(f, <<FALSE, 0>>, m) :
        f \in {<<FALSE, FALSE>>, <<TRUE, TRUE>>},
        m \in {<<FALSE, 0>>, <<TRUE, 20000>>}}

TokInputs ==
    {[self |-> a, text |-> t, options |-> o] :
        a \in TokAdapters, t \in ShortTexts, o \in ShortOptions}
    \cup
    {[self |-> a, text |-> t, options |-> o] :
        a \in TokAdapters, t \in LongTexts, o \in LongOptions}

NoInput == [self |-> NewTiktokenTokenizer("cl100k_base"), text |-> <<>>, options |-> <<>>]

\* const tokens = encode(text) of either adapter
TokensOf(self, text) ==
    IF self.kind = "tiktoken" THEN EncodeAll(text) ELSE PretrainedEncode(self.model, text)

\* this.shouldUseFastMode(text, tokens.length, options) of either adapter
ShouldUseFastMode(self, text, options) ==
    IF self.kind = "tiktoken"
    THEN TiktokenShouldUseFastMode(text, Len(TokensOf(self, text)), options)
    ELSE OpenSourceShouldUseFastMode(text, Len(TokensOf(self, text)), options)

\* adapter.tokenize(text, options)
DoTokenize ==
    /\ tkPc = "start"
    /\ tkOut' = Tokenize(tkIn.self, tkIn.text, tkIn.options)
    /\ tkFast' = ShouldUseFastMode(tkIn.self, tkIn.text, tkIn.options)
    /\ tkPc' = "done"
    /\ UNCHANGED tkIn
    /\ UNCHANGED <<cacheVars, chunkVars, hdVars>>

\* the options of the tokenize call of a request
FlowOptions ==
    {MakeOptions(<<FALSE, FALSE>>, c, <<FALSE, 0>>) :
        c \in {<<FALSE, 0>>, <<TRUE, 1>>, <<TRUE, 2>>}}

\* the texts of the tokenize call of a request
FlowTexts == UNION {[1..n -> Alphabet] : n \in 0..(MaxTextLen - 1)}

\* (await createTokenizer(...)).tokenize(text, options), for call c
TokenizeReturned(c, text, options) ==
    /\ pc[c] = "done"
    /\ tkPc = "idle"
    /\ tkIn' = [self |-> heap[callRet[c]], text |-> text, options |-> options]
    /\ tkOut' = Tokenize(heap[callRet[c]], text, options)
    /\ tkFast' = ShouldUseFastMode(heap[callRet[c]], text, options)
    /\ tkPc' = "done"
    /\ UNCHANGED <<cacheVars, chunkVars, hdVars>>

\* the text of the scenario "a bb ccc dddd"
ExampleText ==
    <<"a", " ", "b", "b", " ", "c", "c", "c", " ", "d", "d", "d", "d">>

ChunkSizes == 1..(MaxTextLen + 1)

ChunkInputs ==
    {[kind |-> k, text |-> t, chunkSize |-> n] :
        k \in {"tiktoken", "opensource"},
        t \in ShortTexts \cup {ExampleText},
        n \in ChunkSizes}

NoChunkInput == [kind |-> "tiktoken", text |-> <<>>, chunkSize |-> 1]

\* this.chunkText(text, chunkSize) of either adapter
DoChunkText ==
    /\ ckPc = "start"
    /\ ckOut' = IF ckIn.kind = "tiktoken"
                THEN TiktokenChunkText(ckIn.text, ckIn.chunkSize)
                ELSE OpenSourceChunkText(ckIn.text, ckIn.chunkSize)
    /\ ckPc' = "done"
    /\ UNCHANGED ckIn
    /\ UNCHANGED <<cacheVars, tokVars, hdVars>>

----------------------------------------------------------------------------
(* Specifications *)

(* The /api/v1/tokens handler: src/pages/api/v1/tokens.ts.  A request is
   given by its method, its Host header and the data merged from its query
   and body. *)

HandlerMethods == {"GET", "POST", "OPTIONS", "PUT"}

HandlerNames ==
    {"cl100k_base", "gpt-4", "text-embedding-3-small", "Qwen/Qwen2.5-72B",
     "not-a-real-model"}

HandlerText == <<"a", "b", "S">>

\* requestData: the identifier under the key encoder or model, text and
\* count_only; text is missing in some requests
HandlerData ==
    {[field |-> f, name |-> n, hasText |-> TRUE, text |-> HandlerText,
      countOnly |-> FALSE] :
        f \in {"encoder", "model"}, n \in HandlerNames}
    \cup {[field |-> "model", name |-> n, hasText |-> TRUE, text |-> HandlerText,
           countOnly |-> TRUE] : n \in HandlerNames}
    \cup {[field |-> "encoder", name |-> "cl100k_base", hasText |-> FALSE,
           text |-> <<>>, countOnly |-> FALSE],
          [field |-> "model", name |-> "gpt-4", hasText |-> FALSE,
           text |-> <<>>, countOnly |-> FALSE]}

HandlerRequests ==
    {[method |-> m, host |-> h, data |-> d] :
        m \in {"GET", "POST"}, h \in InputHosts, d \in HandlerData}
    \cup {[method |-> m, host |-> "h1",
           data |-> [field |-> "model", name |-> "gpt-4", hasText |-> TRUE,
                     text |-> HandlerText, countOnly |-> FALSE]] :
             m \in HandlerMethods \ {"GET", "POST"}}

NoRequest ==
    [method |-> "", host |-> "",
     data |-> [field |-> "", name |-> "", hasText |-> FALSE, text |-> <<>>,
               countOnly |-> FALSE]]

\* requestSchema.parse(requestData) succeeds: z.union([encoderSchema, modelSchema])
PassesSchema(data) ==
    /\ data.hasText
    /\ \/ data.field = "encoder" /\ data.name \in oaiEncodings
       \/ data.field = "model" /\ data.name \in allModels

\* `${req.headers['x-forwarded-proto'] || 'http'}://${req.headers.host}`, or
\* undefined without a Host header
HandlerHostInfo(host) == IF host # "" THEN "http://" \o host ELSE ""

\* the handler gets as far as calculateTokens
ReachesCalculateTokens(c, req) ==
    /\ hdReq[c] = NoRequest
    /\ req.method \in {"GET", "POST"}
    /\ PassesSchema(req.data)

\* tokenizer.tokenize(text) of calculateTokens and the response that follows:
\* a throw is caught by the inner catch and answered with 400
RespondWith(c, adapter) ==
    LET result == Tokenize(adapter, hdReq'[c].data.text,
                           MakeOptions(<<FALSE, FALSE>>, <<FALSE, 0>>, <<FALSE, 0>>))
    IN  IF result.threw
        THEN /\ hdStatus' = [hdStatus EXCEPT ![c] = 400]
             /\ hdBody' = [hdBody EXCEPT ![c] = "error"]
        ELSE /\ hdStatus' = [hdStatus EXCEPT ![c] = 200]
             /\ hdBody' = [hdBody EXCEPT ![c] =
                              IF hdReq'[c].data.countOnly THEN "count" ELSE "full"]

\* the inner catch: status 400 for whatever was thrown inside the inner try
RespondCaught(c) ==
    /\ hdStatus' = [hdStatus EXCEPT ![c] = 400]
    /\ hdBody' = [hdBody EXCEPT ![c] = "error"]

\* the handler answers without calling calculateTokens: OPTIONS, a method
\* other than GET and POST, or requestSchema.parse throws
HandlerRespondsEarly(c, req) ==
    /\ hdReq[c] = NoRequest
    /\ pc[c] = "idle"
    /\ ~ReachesCalculateTokens(c, req)
    /\ hdReq' = [hdReq EXCEPT ![c] = req]
    /\ IF req.method = "OPTIONS"
       THEN /\ hdStatus' = [hdStatus EXCEPT ![c] = 200]
            /\ hdBody' = [hdBody EXCEPT ![c] = "empty"]
       ELSE IF req.method \notin {"GET", "POST"}
       THEN /\ hdStatus' = [hdStatus EXCEPT ![c] = 405]
            /\ hdBody' = [hdBody EXCEPT ![c] = "error"]
       ELSE RespondCaught(c)
    /\ UNCHANGED cacheVars

\* calculateTokens, createTokenizer returning the cached adapter
HandlerCreateHit(c, req) ==
    /\ ReachesCalculateTokens(c, req)
    /\ hdReq' = [hdReq EXCEPT ![c] = req]
    /\ CreateTokenizerHit(c, req.data.name, HandlerHostInfo(req.host))
    /\ RespondWith(c, heap'[callRet'[c]])

\* calculateTokens, createTokenizer building an encoding-engine adapter
HandlerCreateTiktoken(c, req, engineOk) ==
    /\ ReachesCalculateTokens(c, req)
    /\ hdReq' = [hdReq EXCEPT ![c] = req]
    /\ CreateTokenizerTiktoken(c, req.data.name, HandlerHostInfo(req.host), engineOk)
    /\ IF pc'[c] = "failed"
       THEN RespondCaught(c)
       ELSE RespondWith(c, heap'[callRet'[c]])

\* calculateTokens, createTokenizer suspended in the load of an open-source
\* model
HandlerCreateLoad(c, req) ==
    /\ ReachesCalculateTokens(c, req)
    /\ hdReq' = [hdReq EXCEPT ![c] = req]
    /\ CreateTokenizerLoad(c, req.data.name, HandlerHostInfo(req.host))
    /\ UNCHANGED <<hdStatus, hdBody>>

\* the load resolves and the request goes on to tokenize and to answer
HandlerLoadResolve(c) ==
    /\ hdReq[c] # NoRequest
    /\ LoadResolve(c)
    /\ UNCHANGED hdReq
    /\ RespondWith(c, heap'[callRet'[c]])

\* the load rejects: the await in calculateTokens throws inside the inner try
HandlerLoadReject(c) ==
    /\ hdReq[c] # NoRequest
    /\ LoadReject(c)
    /\ UNCHANGED hdReq
    /\ RespondCaught(c)

\* the requests the handler serves at a time
HandlerCalls == {1, 2}

NextHandler ==
    \E c \in HandlerCalls :
        \/ \E req \in HandlerRequests :
              \/ HandlerRespondsEarly(c, req) /\ UNCHANGED <<tokVars, chunkVars>>
              \/ HandlerCreateHit(c, req) /\ UNCHANGED <<tokVars, chunkVars>>
              \/ \E engineOk \in BOOLEAN :
                    HandlerCreateTiktoken(c, req, engineOk)
                        /\ UNCHANGED <<tokVars, chunkVars>>
              \/ HandlerCreateLoad(c, req) /\ UNCHANGED <<tokVars, chunkVars>>
        \/ HandlerLoadResolve(c) /\ UNCHANGED <<tokVars, chunkVars>>
        \/ HandlerLoadReject(c) /\ UNCHANGED <<tokVars, chunkVars>>

TokIdle ==
    /\ tkIn = NoInput
    /\ tkPc = "idle"
    /\ tkFast = FALSE
    /\ tkOut = Thrown

ChunkIdle ==
    /\ ckIn = NoChunkInput
    /\ ckPc = "idle"
    /\ ckOut = <<>>

HandlerIdle ==
    /\ hdReq = [c \in Calls |-> NoRequest]
    /\ hdStatus = [c \in Calls |-> 0]
    /\ hdBody = [c \in Calls |-> "none"]

Init ==
    /\ CacheInit
    /\ TokIdle
    /\ ChunkIdle
    /\ HandlerIdle

Next ==
    \E c \in Calls :
        \/ \E args \in InputArgs :
              \/ CreateTokenizerHit(c, args.name, args.hostInfo)
                    /\ UNCHANGED <<tokVars, chunkVars, hdVars>>
              \/ \E engineOk \in BOOLEAN :
                    CreateTokenizerTiktoken(c, args.name, args.hostInfo, engineOk)
                        /\ UNCHANGED <<tokVars, chunkVars, hdVars>>
              \/ CreateTokenizerLoad(c, args.name, args.hostInfo)
                    /\ UNCHANGED <<tokVars, chunkVars, hdVars>>
              \/ CreateTokenizerInvalid(c, args.name, args.hostInfo)
                    /\ UNCHANGED <<tokVars, chunkVars, hdVars>>
        \/ LoadResolve(c) /\ UNCHANGED <<tokVars, chunkVars, hdVars>>
        \/ LoadReject(c) /\ UNCHANGED <<tokVars, chunkVars, hdVars>>

Spec == Init /\ [][Next]_vars

\* tokenize as a function of the adapter, the text and the options
InitTok ==
    /\ CacheInit
    /\ windowOrigin = ""
    /\ tkIn \in TokInputs
    /\ tkPc = "start"
    /\ tkFast = FALSE
    /\ tkOut = Thrown
    /\ ChunkIdle
    /\ HandlerIdle

NextTok == DoTokenize

SpecTok == InitTok /\ [][NextTok]_vars

\* chunkText as a function of the text and the chunk size
InitChunk ==
    /\ CacheInit
    /\ windowOrigin = ""
    /\ TokIdle
    /\ ckIn \in ChunkInputs
    /\ ckPc = "start"
    /\ ckOut = <<>>
    /\ HandlerIdle

NextChunk == DoChunkText

SpecChunk == InitChunk /\ [][NextChunk]_vars

\* the data flow of a request: createTokenizer, then tokenize on the adapter
\* it returned
FlowCalls == {1, 2}

NextFlow ==
    \E c \in FlowCalls :
        \/ \E args \in InputArgs :
              \/ CreateTokenizerHit(c, args.name, args.hostInfo)
                    /\ UNCHANGED <<tokVars, chunkVars, hdVars>>
              \/ \E engineOk \in BOOLEAN :
                    CreateTokenizerTiktoken(c, args.name, args.hostInfo, engineOk)
                        /\ UNCHANGED <<tokVars, chunkVars, hdVars>>
              \/ CreateTokenizerLoad(c, args.name, args.hostInfo)
                    /\ UNCHANGED <<tokVars, chunkVars, hdVars>>
              \/ CreateTokenizerInvalid(c, args.name, args.hostInfo)
                    /\ UNCHANGED <<tokVars, chunkVars, hdVars>>
        \/ LoadResolve(c) /\ UNCHANGED <<tokVars, chunkVars, hdVars>>
        \/ LoadReject(c) /\ UNCHANGED <<tokVars, chunkVars, hdVars>>
        \/ \E text \in FlowTexts, options \in FlowOptions :
              TokenizeReturned(c, text, options)

SpecFlow == Init /\ [][NextFlow]_vars

\* the API handler serving requests
SpecHandler == Init /\ [][NextHandler]_vars

----------------------------------------------------------------------------
(* Reading a result *)

\* the text fields of segments[lo..hi], joined
RECURSIVE JoinTexts(_, _, _)
JoinTexts(segments, lo, hi) ==
    IF lo > hi THEN <<>>
    ELSE IF lo = hi THEN segments[lo].text
         ELSE LET mid == (lo + hi) \div 2
              IN  JoinTexts(segments, lo, mid) \o JoinTexts(segments, mid + 1, hi)

\* the tokens {id, idx} of segments[lo..hi], in list order
RECURSIVE SegmentTokens(_, _, _)
SegmentTokens(segments, lo, hi) ==
    IF lo > hi THEN <<>>
    ELSE IF lo = hi THEN segments[lo].tokens
         ELSE LET mid == (lo + hi) \div 2
              IN  SegmentTokens(segments, lo, mid) \o SegmentTokens(segments, mid + 1, hi)

AllSegmentTokens(result) == SegmentTokens(result.segments, 1, Len(result.segments))

Returned == tkPc = "done" /\ ~tkOut.threw

WithoutFastMode(options) ==
    [f \in DOMAIN options \ {"fastMode"} |-> options[f]]

HasQuirk(self) == self.kind = "opensource" /\ self.name \in hackModelsRemoveFirstToken

\* the chunk size the segmentation of this call works with
ChunkSizeOf(self, options) ==
    IF self.kind = "tiktoken" THEN TiktokenChunkSize(options) ELSE OpenSourceChunkSize(options)

\* the engine's own segments over the whole text
NativeSegments(self, text) ==
    IF self.kind = "tiktoken"
    THEN getTiktokenSegments(text)
    ELSE getHuggingfaceSegments(self.model, text, self.name \in hackModelsRemoveFirstToken)

TriggerLengthOf(self) ==
    IF self.kind = "tiktoken" THEN TiktokenTriggerLength ELSE OpenSourceTriggerLength

DefaultMaxTokensOf(self) ==
    IF self.kind = "tiktoken" THEN TiktokenDefaultMaxTokens ELSE OpenSourceDefaultMaxTokens

DefaultChunkSizeOf(self) ==
    IF self.kind = "tiktoken" THEN TiktokenDefaultChunkSize ELSE OpenSourceDefaultChunkSize

----------------------------------------------------------------------------
(* Properties of tokenize, checked under SpecTok *)

\* C2: every result tokenize returns, for either adapter and on the fast,
\* direct and chunked paths, has count equal to the length of tokens.
C2_CountIsLength == Returned => tkOut.count = Len(tkOut.tokens)

\* a result of the chunked path of an adapter with the remove-first-token quirk
C2_Witness ==
    /\ Returned /\ ~tkFast
    /\ HasQuirk(tkIn.self)
    /\ Len(tkIn.text) > ChunkSizeOf(tkIn.self, tkIn.options)
    /\ tkOut.count > 1

\* C3: with fastMode: true, tokenize returns an empty segments list, and
\* tokens and count equal to those of the call on the same text without
\* fastMode (same other options, and no options at all).
C3_FastMode ==
    (tkPc = "done" /\ Truthy(tkIn.options, "fastMode")) =>
        /\ ~tkOut.threw
        /\ tkOut.segments = <<>>
        /\ LET same == Tokenize(tkIn.self, tkIn.text, WithoutFastMode(tkIn.options))
               none == Tokenize(tkIn.self, tkIn.text, <<>>)
           IN  /\ same.threw \/ (tkOut.tokens = same.tokens /\ tkOut.count = same.count)
               /\ none.threw \/ (tkOut.tokens = none.tokens /\ tkOut.count = none.count)

\* fastMode: true on a text whose call without fastMode computes segments
C3_Witness ==
    /\ tkPc = "done" /\ Truthy(tkIn.options, "fastMode")
    /\ tkOut.count > 1
    /\ Tokenize(tkIn.self, tkIn.text, WithoutFastMode(tkIn.options)).segments # <<>>

\* C4 as stated: for any text and any chunkSize, the text fields of the
\* returned segments, joined in order, are the input text.
C4_Original ==
    Returned => JoinTexts(tkOut.segments, 1, Len(tkOut.segments)) = tkIn.text

\* C4 as amended: whenever tokenize did not select fast mode, the text fields
\* of the returned segments, joined in order, are the input text.
C4_Concatenation ==
    (Returned /\ ~tkFast) =>
        JoinTexts(tkOut.segments, 1, Len(tkOut.segments)) = tkIn.text

\* segments of a text cut into at least three chunks
C4_Witness ==
    /\ Returned /\ ~tkFast
    /\ Len(tkIn.text) > 2 * ChunkSizeOf(tkIn.self, tkIn.options)
    /\ Len(tkOut.segments) > 2

\* C5: in a result with segments, of an adapter without the
\* remove-first-token quirk, the idx values are strictly increasing and every
\* segment token {id, idx} is the token at position idx of the result's tokens.
C5_IdxMatchesTokens ==
    (Returned /\ tkOut.segments # <<>> /\ ~HasQuirk(tkIn.self)) =>
        LET toks == AllSegmentTokens(tkOut)
        IN  \A j \in 1..Len(toks) :
                /\ 0 <= toks[j].idx /\ toks[j].idx < tkOut.count
                /\ tkOut.tokens[toks[j].idx + 1] = toks[j].id
                /\ j > 1 => toks[j - 1].idx < toks[j].idx

\* C6: in a non-empty segment list the idx values, read in list order across
\* segments and chunks, never decrease.
C6_IdxMonotone ==
    (Returned /\ tkOut.segments # <<>>) =>
        LET toks == AllSegmentTokens(tkOut)
        IN  \A j \in 2..Len(toks) : toks[j - 1].idx <= toks[j].idx

\* segments stitched from at least three chunks
C6_Witness ==
    /\ Returned /\ ~tkFast
    /\ tkIn.self.kind = "opensource"
    /\ Len(tkIn.text) > 2 * ChunkSizeOf(tkIn.self, tkIn.options)
    /\ Len(AllSegmentTokens(tkOut)) > 3

\* the chunk size as C7 reads it: the option, or the default when absent
StatedChunkSize(self, options) ==
    IF HasField(options, "chunkSize") THEN options.chunkSize ELSE DefaultChunkSizeOf(self)

\* C7: for a text no longer than chunkSize, the returned segments are the
\* engine's native segments computed once over the whole text.
C7_ShortTextDirect ==
    (Returned /\ ~tkFast /\ Len(tkIn.text) <= StatedChunkSize(tkIn.self, tkIn.options)) =>
        tkOut.segments = NativeSegments(tkIn.self, tkIn.text)

\* a text exactly as long as the chunkSize passed in the options
C7_Witness ==
    /\ Returned /\ ~tkFast
    /\ HasField(tkIn.options, "chunkSize")
    /\ Len(tkIn.text) = tkIn.options.chunkSize
    /\ Len(tkOut.segments) > 1

\* the decision as C9 states it
StatedFastMode(self, text, options) ==
    \/ HasField(options, "fastMode") /\ options.fastMode
    \/ Len(text) > TriggerLengthOf(self)
    \/ Len(TokensOf(self, text)) >
           (IF HasField(options, "maxTokens") THEN options.maxTokens
            ELSE DefaultMaxTokensOf(self))

\* C9 as stated: shouldUseFastMode is true exactly when fastMode is set, or
\* the text is longer than the trigger length, or tokenCount exceeds maxTokens
\* (the default when absent); segments is empty exactly when it is true.
C9_Original ==
    tkPc = "done" =>
        /\ tkFast <=> StatedFastMode(tkIn.self, tkIn.text, tkIn.options)
        /\ ~tkOut.threw => (tkOut.segments = <<>> <=> tkFast)

\* C9 as amended: shouldUseFastMode is true exactly when fastMode is set, or
\* the text is longer than the trigger length, or tokenCount exceeds maxTokens
\* (the default when maxTokens is absent or 0); segments is empty whenever it
\* is true, and when it is false segments is empty only for the empty text.
C9_FastModeDecision ==
    tkPc = "done" =>
        /\ tkFast <=>
              \/ HasField(tkIn.options, "fastMode") /\ tkIn.options.fastMode
              \/ Len(tkIn.text) > TriggerLengthOf(tkIn.self)
              \/ Len(TokensOf(tkIn.self, tkIn.text)) >
                     (IF HasField(tkIn.options, "maxTokens") /\ tkIn.options.maxTokens # 0
                      THEN tkIn.options.maxTokens
                      ELSE DefaultMaxTokensOf(tkIn.self))
        /\ tkFast => (~tkOut.threw /\ tkOut.segments = <<>>)
        /\ (~tkFast /\ ~tkOut.threw /\ tkOut.segments = <<>>) => tkIn.text = <<>>

\* fast mode selected by the token count alone, on the default maxTokens
C9_Witness ==
    /\ tkPc = "done" /\ tkFast
    /\ ~Truthy(tkIn.options, "fastMode")
    /\ ~HasField(tkIn.options, "maxTokens")
    /\ Len(tkIn.text) <= TriggerLengthOf(tkIn.self)

----------------------------------------------------------------------------
(* Properties of the tokenizer cache, checked under Spec *)

\* C1: any two successful resolutions with the same identifier and the same
\* (or absent) hostInfo return the same adapter instance, and the loader is
\* invoked at most once per cache key, under any interleaving of the calls.
C1_CacheIdentity ==
    /\ \A c1, c2 \in Calls :
          (pc[c1] = "done" /\ pc[c2] = "done" /\ callArgs[c1] = callArgs[c2])
              => callRet[c1] = callRet[c2]
    /\ \A k \in DOMAIN loadCount : loadCount[k] <= 1

\* C8: after a createTokenizer call has failed, the cache holds an entry for
\* its key only if another call, which succeeded, put or found it there; no
\* entry is left by the failed call itself.
C8_FailedCallLeavesNoEntry ==
    \A c \in Calls :
        (pc[c] = "failed" /\ KeyOf(c) \in DOMAIN tokenizerCache) =>
            \E d \in Calls :
                /\ pc[d] = "done"
                /\ KeyOf(d) = KeyOf(c)
                /\ tokenizerCache[KeyOf(c)] \in 1..Len(heap)
                /\ \E e \in Calls : pc[e] = "done" /\ callRet[e] = tokenizerCache[KeyOf(c)]

\* a load has failed, its key is absent from the cache, and a call with the
\* same arguments is loading again
C8_Witness ==
    \E c, d \in Calls :
        /\ pc[c] = "failed" /\ callArgs[c].name \in openSourceModels
        /\ KeyOf(c) \notin DOMAIN tokenizerCache
        /\ pc[d] = "loading" /\ callArgs[d] = callArgs[c]
        /\ LoadCountOf(KeyOf(c)) > 1

\* C10: a cache key, once inserted, stays present in every later state, and
\* the instance stored under it is never replaced by another instance.
C10_EntriesStable ==
    [][\A k \in DOMAIN tokenizerCache :
          /\ k \in DOMAIN tokenizerCache'
          /\ tokenizerCache'[k] = tokenizerCache[k]]_vars

----------------------------------------------------------------------------
(* Claims about OpenSourceTokenizer.load and the failing paths of
   createTokenizer, under Spec *)

\* the host the priority order names for a load called with hostInfo
StatedLoadHost(hostInfo) ==
    IF hostInfo # "" THEN hostInfo
    ELSE IF windowOrigin # "" THEN windowOrigin
    ELSE DefaultRemoteHost

\* C11: every load fetches from the host the priority order names: the
\* hostInfo of the call if given, else the page origin if there is one, else
\* the default remote host, whatever loads ran before it.
C11_LoadHostPriority ==
    \A c \in Calls :
        loadHost[c] # "" => loadHost[c] = StatedLoadHost(callArgs[c].hostInfo)

TooNewModels == {"text-embedding-3-small", "text-embedding-3-large"}

\* call c starts in this step
Starts(c) == pc[c] = "idle" /\ pc'[c] # "idle"

C12_TooNewStep ==
    \A c \in Calls :
        (Starts(c) /\ callArgs'[c].name \in TooNewModels)
            => /\ isValidOption(callArgs'[c].name)
               /\ pc'[c] = "failed"
               /\ ~engineUsed'[c]
               /\ tokenizerCache' = tokenizerCache
               /\ heap' = heap

\* C12: the two "too new" embedding models are valid options, yet a
\* createTokenizer call for one of them fails before an engine is obtained,
\* builds no adapter and leaves the cache as it was.
C12_TooNewFails == [][C12_TooNewStep]_vars

\* both names have been refused while the cache held an entry
C12_Witness ==
    /\ tokenizerCache # EmptyMap
    /\ \A n \in TooNewModels :
          \E c \in Calls : callArgs[c].name = n /\ pc[c] = "failed" /\ ~engineUsed[c]

C13_InvalidStep ==
    \A c \in Calls :
        (Starts(c) /\ ~isValidOption(callArgs'[c].name))
            => /\ pc'[c] = "failed"
               /\ ~engineUsed'[c]
               /\ loadHost'[c] = ""
               /\ tokenizerCache' = tokenizerCache
               /\ heap' = heap

\* C13: a createTokenizer call with a name of no catalog set fails, without
\* obtaining an engine, without calling the loader and without changing the
\* cache.
C13_InvalidNameFails == [][C13_InvalidStep]_vars

----------------------------------------------------------------------------
(* Claims about chunkText, under SpecChunk *)

RECURSIVE ConcatChunks(_)
ConcatChunks(chunks) ==
    IF chunks = <<>> THEN <<>> ELSE Head(chunks) \o ConcatChunks(Tail(chunks))

\* ceil(n / chunkSize)
CeilDiv(n, chunkSize) == (n + chunkSize - 1) \div chunkSize

\* C14: for every text and positive chunkSize, chunkText returns
\* ceil(length / chunkSize) slices, the k-th being the characters from
\* (k-1)*chunkSize up to k*chunkSize, so each has at most chunkSize characters,
\* all but the last exactly chunkSize, and they concatenate to the text;
\* "a bb ccc dddd" with chunkSize 5 gives "a bb ", "ccc d", "ddd".
C14_ChunkText ==
    ckPc = "done" =>
        LET text == ckIn.text
            chunkSize == ckIn.chunkSize
            count == CeilDiv(Len(text), chunkSize)
        IN  /\ Len(ckOut) = count
            /\ \A k \in 1..count :
                  /\ ckOut[k] = SubSeq(text, (k - 1) * chunkSize + 1,
                                       Min(k * chunkSize, Len(text)))
                  /\ Len(ckOut[k]) \in 1..chunkSize
                  /\ k < count => Len(ckOut[k]) = chunkSize
            /\ ConcatChunks(ckOut) = text
            /\ (text = ExampleText /\ chunkSize = 5)
                  => ckOut = << <<"a", " ", "b", "b", " ">>,
                                <<"c", "c", "c", " ", "d">>,
                                <<"d", "d", "d">> >>

\* the open-source adapter has split the example text into its three chunks
C14_Witness ==
    /\ ckPc = "done"
    /\ ckIn.kind = "opensource"
    /\ ckIn.text = ExampleText
    /\ ckIn.chunkSize = 5
    /\ Len(ckOut) = 3
    /\ Len(ckOut[3]) = 3

----------------------------------------------------------------------------
(* Claims about the remove-first-token flag, under SpecTok *)

\* the same adapter under a name on the other side of the remove-first-token
\* list
WithFlippedQuirk(self) ==
    [self EXCEPT !.name = IF self.name \in hackModelsRemoveFirstToken
                          THEN "Qwen/Qwen2.5-72B"
                          ELSE "meta-llama/Llama-2-7b-hf"]

\* C15: the tokens and the count OpenSourceTokenizer.tokenize returns are
\* the engine's encode(text) and its length, and are the same whether or not
\* the adapter's name is in the remove-first-token list.
C15_QuirkOnlyInSegments ==
    (Returned /\ tkIn.self.kind = "opensource") =>
        LET encoded == PretrainedEncode(tkIn.self.model, tkIn.text)
            other == Tokenize(WithFlippedQuirk(tkIn.self), tkIn.text, tkIn.options)
        IN  /\ tkOut.tokens = encoded
            /\ tkOut.count = Len(encoded)
            /\ ~other.threw
            /\ other.tokens = tkOut.tokens
            /\ other.count = tkOut.count

\* an adapter of the list returned segments without the first token, and the
\* full tokens and count
C15_Witness ==
    /\ Returned
    /\ HasQuirk(tkIn.self)
    /\ ~tkFast
    /\ Len(tkIn.text) > 1
    /\ Len(AllSegmentTokens(tkOut)) < tkOut.count
    /\ tkOut.tokens[1] = BosId
    /\ tkOut.count = Len(tkOut.tokens)

----------------------------------------------------------------------------
(* Claims about a request, createTokenizer followed by tokenize, under
   SpecFlow *)

\* some chunk of the chunked path holds a character the default-mode encode
\* of the offset computation refuses
SomeChunkFails(self, text, options) ==
    LET chunkSize == ChunkSizeOf(self, options)
    IN  /\ self.kind = "tiktoken"
        /\ Len(text) > chunkSize
        /\ \E k \in 1..CeilDiv(Len(text), chunkSize) :
              HasSpecial(SubSeq(text, (k - 1) * chunkSize + 1,
                                Min(k * chunkSize, Len(text))))

\* C16: a failure reaches the caller as an error: when the offset or segment
\* computation of any chunk fails, tokenize returns no result, and a
\* createTokenizer call that failed (a rejected load included) returned no
\* adapter, while a call that is done returned one.
C16_ErrorsPropagate ==
    /\ \A c \in Calls :
          /\ pc[c] = "failed" => callRet[c] = 0
          /\ pc[c] = "done" => callRet[c] \in 1..Len(heap)
    /\ (tkPc = "done" /\ ~tkFast /\ SomeChunkFails(tkIn.self, tkIn.text, tkIn.options))
          => tkOut = Thrown

\* tokenize failed on a chunk after the first, whose segments were already
\* built, and a createTokenizer call failed by a rejected load
C16_Witness ==
    /\ tkPc = "done"
    /\ tkOut = Thrown
    /\ Len(tkIn.text) > ChunkSizeOf(tkIn.self, tkIn.options)
    /\ ~HasSpecial(SubSeq(tkIn.text, 1, ChunkSizeOf(tkIn.self, tkIn.options)))
    /\ \E c \in Calls : pc[c] = "failed" /\ loadHost[c] # "" /\ callRet[c] = 0

----------------------------------------------------------------------------
(* Claims about overlapping createTokenizer calls, under Spec *)

\* the calls that went through OpenSourceTokenizer.load for key k
LoadedCalls(k) == {c \in Calls : loadHost[c] # "" /\ KeyOf(c) = k}

C17_LoaderPerCall ==
    \A k \in DOMAIN loadCount : loadCount[k] = Cardinality(LoadedCalls(k))

C17_Step ==
    \A c \in Calls :
        /\ (pc[c] = "loading" /\ pc'[c] = "done")
              => /\ callRet'[c] \notin {callRet[d] : d \in Calls}
                 /\ callRet'[c] \notin {tokenizerCache[k] : k \in DOMAIN tokenizerCache}
                 /\ heap'[callRet'[c]].kind = "opensource"
                 /\ DOMAIN tokenizerCache' = DOMAIN tokenizerCache \cup {KeyOf(c)}
                 /\ tokenizerCache'[KeyOf(c)] = callRet'[c]
        /\ (Starts(c) /\ callArgs'[c].name \in openSourceModels /\ pc'[c] = "done")
              => callRet'[c] = tokenizerCache[cacheKey(callArgs'[c].name,
                                                       callArgs'[c].hostInfo)]

\* C17: overlapping createTokenizer calls for one uncached open-source key
\* each run the loader and get an adapter of their own; each insertion puts
\* the caller's instance under the key, the later one replacing the earlier,
\* so the key has one entry, the instance inserted last, and a call that
\* starts afterwards returns that entry.
C17_OverlappingLoads == [](C17_LoaderPerCall) /\ [][C17_Step]_vars

\* two overlapping loads of one key are done with an instance each, the
\* cache holds the later one, and a third call returned it from the cache
C17_Witness ==
    \E c1, c2, c3 \in Calls :
        /\ c1 # c2
        /\ KeyOf(c1) = KeyOf(c2) /\ KeyOf(c3) = KeyOf(c1)
        /\ pc[c1] = "done" /\ pc[c2] = "done" /\ pc[c3] = "done"
        /\ loadHost[c1] # "" /\ loadHost[c2] # "" /\ loadHost[c3] = ""
        /\ callRet[c1] < callRet[c2]
        /\ tokenizerCache[KeyOf(c1)] = callRet[c2]
        /\ callRet[c3] = callRet[c2]
        /\ loadCount[KeyOf(c1)] = 2

\* call c built an encoding-engine adapter
BuiltEngineAdapter(c) ==
    /\ pc[c] = "done"
    /\ engineUsed[c]
    /\ heap[callRet[c]].kind = "tiktoken"

\* C18: under any interleaving of the calls, at most one call builds an
\* encoding-engine adapter for a cache key, and every encoding-engine adapter
\* that exists was built by a call and is the entry of that call's key, so
\* none is left outside the cache.
C18_NoOrphanEngine ==
    /\ \A i \in 1..Len(heap) :
          heap[i].kind = "tiktoken"
              => \E c \in Calls :
                    /\ BuiltEngineAdapter(c)
                    /\ callRet[c] = i
                    /\ KeyOf(c) \in DOMAIN tokenizerCache
                    /\ tokenizerCache[KeyOf(c)] = i
    /\ \A c1, c2 \in Calls :
          (c1 # c2 /\ BuiltEngineAdapter(c1) /\ BuiltEngineAdapter(c2))
              => KeyOf(c1) # KeyOf(c2)

\* two encoding-engine adapters exist while an open-source load is in
\* flight, and all three calls are for different keys
C18_Witness ==
    \E c1, c2, c3 \in Calls :
        /\ c1 # c2
        /\ BuiltEngineAdapter(c1) /\ BuiltEngineAdapter(c2)
        /\ heap[callRet[c1]].name = heap[callRet[c2]].name
        /\ pc[c3] = "loading"

----------------------------------------------------------------------------
(* Claims about the chunked path and the remove-first-token flag *)

\* tokenize went through the chunk loop of getSegmentsOptimized
Chunked ==
    /\ Returned
    /\ ~tkFast
    /\ Len(tkIn.text) > ChunkSizeOf(tkIn.self, tkIn.options)

\* C19: in the chunked path of both adapters the idx values of the stitched
\* segment list are 0, 1, 2, ... in list order, without gap or repeat, the
\* remove-first-token flag set or not.
C19_IdxConsecutive ==
    Chunked =>
        LET toks == AllSegmentTokens(tkOut)
        IN  \A j \in 1..Len(toks) : toks[j].idx = j - 1

\* C20: no member of openSourceModels is in the remove-first-token list, an
\* open-source adapter built by createTokenizer carries the requested name,
\* and so for every adapter a createTokenizer call returned, and in every
\* tokenize on such an adapter, the remove-first-token flag is false.
C20_NoQuirkThroughCreate ==
    /\ openSourceModels \cap hackModelsRemoveFirstToken = {}
    /\ \A c \in Calls :
          pc[c] = "done" =>
              /\ ~HasQuirk(heap[callRet[c]])
              /\ loadHost[c] # "" =>
                    /\ heap[callRet[c]].kind = "opensource"
                    /\ heap[callRet[c]].name = callArgs[c].name
                    /\ callArgs[c].name \in openSourceModels
    /\ tkPc = "done" => ~HasQuirk(tkIn.self)

\* an open-source adapter from createTokenizer has tokenized a text in
\* chunks, and a call for a model of the remove-first-token list was refused
C20_Witness ==
    /\ Chunked
    /\ tkIn.self.kind = "opensource"
    /\ tkOut.count > 1
    /\ \E c \in Calls :
          /\ callArgs[c].name \in hackModelsRemoveFirstToken
          /\ pc[c] = "failed"

----------------------------------------------------------------------------
(* Claims about the API handler, under SpecHandler *)

\* C21: a GET or POST request whose data passes the request schema and whose
\* tokenizer resolution or tokenization throws is answered with status 500,
\* and status 400 is the answer only to data that fails the schema.
C21_StatusCodes ==
    \A c \in Calls :
        (hdStatus[c] # 0 /\ hdReq[c].method \in {"GET", "POST"}) =>
            /\ hdStatus[c] = 400 => ~PassesSchema(hdReq[c].data)
            /\ (PassesSchema(hdReq[c].data) /\ pc[c] = "failed") => hdStatus[c] = 500
====
